---- MODULE Spec2Model ----
(***************************************************************************)
(* OpenBoycott, src/openboycottdata/analyze.py: the evidence aggregator    *)
(* (aggregate_metrics), the retry loops around the model calls             *)
(* (ask_about_article, data_grounded_gemini, ask_compeditors) and the      *)
(* per-company pipeline (analyze_companies); then, each on its own, the    *)
(* search loop of data_google with wait_until_4am and the clock, data_fmp,  *)
(* and the save step of the main block.                                    *)
(*                                                                         *)
(* Numbers.  A score, and every value aggregate_metrics returns, is a      *)
(* fixed-point integer counted in units of 10^-(Decimals+1), one decimal   *)
(* finer than round(x, 3) keeps, so that rounding is something the model   *)
(* does and not the identity: the score 80 is F(80) = 800000 units, 0.0004 *)
(* is 4 units.  A weight is a whole number (TLC's integers are 32 bits     *)
(* wide, and weight * score has to fit).  The scores drawn are whole       *)
(* numbers and the one fraction 0.0004; on those the exact quotient never  *)
(* sits on a rounding tie that a binary float would represent inexactly,   *)
(* so exact arithmetic and IEEE doubles agree on every rounded result.     *)
(***************************************************************************)
EXTENDS Integers, Sequences, FiniteSets, TLC

VARIABLES
    \* aggregate_metrics called on its own
    metrics_list,       \* the argument: a sequence of bundles
    agg_pc,             \* "input" before the call, "done" after it
    agg_out,            \* what the call produced: [raised, value]
    \* one retry-wrapped model call followed attempt by attempt
    call,               \* the call's frame: fn, attempt, response, status, value, log
    history,            \* what the model answered to each attempt so far
    \* analyze_companies
    companies,          \* the argument: a sequence of names
    skip_names,         \* the canonical names skip_company answers True for
    skip_default,       \* whether skip_company was left to its default
    test_mode,
    idx,                \* position of "for company in companies", from 1
    pc,                 \* the statement analyze_companies is at
    g,                  \* data_google's locals: todo, responses, link_list, datasets
    google_data, sources, fmp_data, metrics,
    all_company_data,
    trace,              \* every call made for a company and whether its
                        \* metrics came out empty, in order
    exc,                \* the exception analyze_companies ended with, if any
    \* data_google's search loop followed request by request, with the clock
    now,                \* local time, in ticks since a midnight
    search,             \* the loop's frame: todo, i, status, log
    \* data_fmp called on its own
    fmp_call,           \* what the request gives, and what the call ends with
    \* the script's main block
    TEST_MODE,
    main_pc,            \* "analyze", "save" or "done"
    final_data,         \* what analyze_companies returned
    output_json         \* output.json before the run (was) and now (is)

agg_vars == <<metrics_list, agg_pc, agg_out>>
retry_vars == <<call, history>>
locals == <<g, google_data, sources, fmp_data, metrics>>
pipe_vars == <<companies, skip_names, skip_default, test_mode, idx, pc, locals,
               all_company_data, trace, exc>>

search_vars == <<now, search>>
main_vars == <<TEST_MODE, main_pc, final_data, output_json>>
side_vars == <<search_vars, fmp_call, main_vars>>

vars == <<agg_vars, retry_vars, pipe_vars, side_vars>>

----------------------------------------------------------------------------
(* Bounds of the model *)

MaxBundles == 2         \* longest metrics_list drawn
MaxWeight == 2          \* largest whole weight drawn

(* Program constants *)

Decimals == 3           \* round(total_weight, 3), round(final_score, 3)
RetryRange == 5         \* for attempt in range(5)
FinalAttempt == 4       \* if attempt == 4
CooldownStep == 300     \* cooldown = attempt*300 + 60
CooldownBase == 60
RateLimited == 429      \* e.code == 429

Scale == 10 ^ (Decimals + 1)    \* units per 1.0
Step == Scale \div (10 ^ Decimals)   \* units per 10^-Decimals, the rounding step

F(n) == n * Scale               \* the whole number n as a fixed-point value

----------------------------------------------------------------------------
(* Values as Python sees them: a list element is a number, or something    *)
(* float() rejects (None, a non-numeric string).                           *)

Num(n) == [isnum |-> TRUE, val |-> n]
NonNumeric == [isnum |-> FALSE, val |-> 0]

\* the issue catalogue (analyze.py:8-17), cut down to two of its eight ids
issues == {"ENV", "PAY"}

Abs(x) == IF x < 0 THEN -x ELSE x

RECURSIVE SumSeq(_)
SumSeq(s) == IF s = <<>> THEN 0 ELSE Head(s) + SumSeq(Tail(s))

\* Doubles carry 53 significant bits, so a whole number below 2^53 is exact
\* and one of 2^53 or more is not always.  Such a number does not fit a TLC
\* integer: the integer b * Huge + s, with |s| < Huge / 2, stands for the
\* double b * 2^53 + s.  It is used for weights only, next to scores of 0.
Huge == 2 ^ 15

\* the largest power of 2 that is at most n, for n >= 1
RECURSIVE pow2floor(_)
pow2floor(n) == IF n < 2 THEN 1 ELSE 2 * pow2floor(n \div 2)

\* x rounded to a multiple of q, a tie going to the even multiple
round_half_even(x, q) ==
    LET lo == q * (x \div q)
        r == x - lo
    IN  IF 2 * r < q THEN lo
        ELSE IF 2 * r > q THEN lo + q
        ELSE IF (lo \div q) % 2 = 0 THEN lo ELSE lo + q

\* a + b on two doubles that hold whole numbers: the exact sum rounded to 53
\* significant bits, that is to a multiple of 2^(e-52) for a sum in
\* [2^e, 2^(e+1))
float_add_exact(a, b) == a + b

float_add(a, b) ==
    LET n == Abs(a + b)
        nearest == (n + Huge \div 2) \div Huge
        s == n - nearest * Huge
        top == IF s < 0 THEN nearest - 1 ELSE nearest      \* floor(n / 2^53)
        ulp == IF top = 0 THEN 1 ELSE 2 * pow2floor(top)
        rounded == nearest * Huge + round_half_even(s, ulp)
    IN  IF a + b < 0 THEN -rounded ELSE rounded

\* sum(...) over doubles: from 0, one addition per element, left to right
\* (from CPython 3.12 on sum() also carries a compensation term, which
\* changes which lists lose bits, not that some do)
RECURSIVE float_sum(_)
float_sum(s) ==
    IF s = <<>> THEN 0
    ELSE float_add(float_sum(SubSeq(s, 1, Len(s) - 1)), s[Len(s)])

\* Python's round(num/den, 3) for den > 0, on fixed-point values: the
\* nearest multiple of Step, a tie going to the even multiple.
round_wrong_floor(num, den) == Step * (num \div (den * Step))

round(num, den) ==
    LET d == den * Step
        q == num \div d
        r == num - q * d
    IN  IF 2 * r < d THEN Step * q
        ELSE IF 2 * r > d THEN Step * (q + 1)
        ELSE IF q % 2 = 0 THEN Step * q ELSE Step * (q + 1)

----------------------------------------------------------------------------
(* aggregate_metrics, analyze.py:249-282 *)

\* isinstance(data, list) and len(data) == 2; data that is no list at all is
\* modelled as a list of another length
is_pair(data) == Len(data) = 2

\* float(data[0]), float(data[1]) raises on a non-numeric element
float_raises(data) == is_pair(data) /\ (~data[1].isnum \/ ~data[2].isnum)

\* one turn of the outer loop: every (issue_id, data) of one bundle
combine_one_overwrite(combined_metrics, bundle) ==
    [i \in DOMAIN combined_metrics \cup DOMAIN bundle |->
        IF i \in DOMAIN bundle /\ is_pair(bundle[i])
        THEN <<(<<bundle[i][1].val, bundle[i][2].val>>)>>
        ELSE IF i \in DOMAIN combined_metrics THEN combined_metrics[i] ELSE <<>>]

combine_one(combined_metrics, bundle) ==
    [i \in DOMAIN combined_metrics \cup DOMAIN bundle |->
        LET old == IF i \in DOMAIN combined_metrics
                   THEN combined_metrics[i] ELSE <<>>
        IN  IF i \in DOMAIN bundle /\ is_pair(bundle[i])
            THEN Append(old, <<bundle[i][1].val, bundle[i][2].val>>)
            ELSE old]

RECURSIVE combine(_, _)
combine(combined_metrics, ml) ==
    IF ml = <<>> THEN combined_metrics
    ELSE combine(combine_one(combined_metrics, Head(ml)), Tail(ml))

\* sum(point[0] for point in data_points)
total_weight_count(data_points) == Len(data_points)

total_weight(data_points) ==
    float_sum([k \in 1..Len(data_points) |-> data_points[k][1]])

\* sum(point[0] * point[1])
\* A product is a fixed-point value, not a weight; with the weights and
\* scores drawn every product and every sum of products is a whole number of
\* units far below 2^53, and the additions are exact.
weighted_sum_unweighted(data_points) ==
    SumSeq([k \in 1..Len(data_points) |-> data_points[k][2]])

weighted_sum(data_points) ==
    SumSeq([k \in 1..Len(data_points) |-> data_points[k][1] * data_points[k][2]])

\* "if not data_points: continue" and "if total_weight <= 0: continue"
kept_no_guard(data_points) == data_points # <<>>

kept(data_points) == data_points # <<>> /\ total_weight(data_points) > 0

\* the value stored for one issue: [round(total_weight, 3), round(final_score, 3)]
issue_result(data_points) ==
    <<round(F(total_weight(data_points)), 1),
      round(weighted_sum(data_points), total_weight(data_points))>>

\* The call ends by returning the mapping (raised = "none") or by an
\* exception nothing in it catches: float() on a non-numeric element, or the
\* division when it is reached with total_weight = 0.
aggregate_metrics(ml) ==
    IF \E k \in 1..Len(ml) : \E i \in DOMAIN ml[k] : float_raises(ml[k][i])
    THEN [raised |-> "ValueError", value |-> <<>>]
    ELSE LET combined_metrics == combine(<<>>, ml)
             keep == {i \in DOMAIN combined_metrics : kept(combined_metrics[i])}
         IN  IF \E i \in keep : total_weight(combined_metrics[i]) = 0
             THEN [raised |-> "ZeroDivisionError", value |-> <<>>]
             ELSE [raised |-> "none",
                   value |-> [i \in keep |-> issue_result(combined_metrics[i])]]

----------------------------------------------------------------------------
(* The inputs aggregate_metrics is applied to *)

WeightVals == -1..MaxWeight
ScoreVals == {0, 4, F(60), F(80)}

WellFormed == {<<Num(w), Num(s)>> : w \in WeightVals, s \in ScoreVals}
Malformed == {<<Num(1)>>, <<Num(1), NonNumeric>>}

EntriesOf(i) ==
    IF i = "ENV" THEN WellFormed \cup Malformed
    ELSE {<<Num(1), Num(F(60))>>}

Bundles ==
    UNION {{b \in [D -> WellFormed \cup Malformed] :
                \A i \in D : b[i] \in EntriesOf(i)} : D \in SUBSET issues}

RECURSIVE SeqsUpTo(_, _)
SeqsUpTo(S, n) ==
    IF n = 0 THEN {<<>>}
    ELSE LET shorter == SeqsUpTo(S, n - 1)
         IN  shorter \cup {Append(s, x) : s \in {t \in shorter : Len(t) = n - 1}, x \in S}

NoResult == [raised |-> "none", value |-> <<>>]

NoLocals == [todo |-> <<>>, responses |-> <<>>, link_list |-> <<>>, datasets |-> <<>>]

\* analyze_companies not called
PipelineIdle ==
    /\ companies = <<>> /\ skip_names = {} /\ skip_default = FALSE
    /\ test_mode = FALSE
    /\ idx = 0 /\ pc = "idle"
    /\ g = NoLocals
    /\ google_data = <<>> /\ sources = <<>> /\ fmp_data = <<>>
    /\ metrics = <<>>
    /\ all_company_data = <<>>
    /\ trace = <<>>
    /\ exc = ""

IdleSearch == [todo |-> <<>>, i |-> 0, status |-> "idle", log |-> <<>>]

\* output.json: absent, present but not a JSON mapping, or a mapping
NoFile == [state |-> "missing", content |-> <<>>]
BadFile == [state |-> "unreadable", content |-> <<>>]
FileOf(mapping) == [state |-> "mapping", content |-> mapping]

SearchIdle ==
    /\ now = 0
    /\ search = IdleSearch

FmpIdle == fmp_call = [test_mode |-> FALSE, payload |-> "none", status |-> "idle", value |-> <<>>]

MainIdle ==
    /\ TEST_MODE = FALSE
    /\ main_pc = "idle"
    /\ final_data = <<>>
    /\ output_json = [was |-> NoFile, is |-> NoFile]

\* nothing else is running
SideIdle == SearchIdle /\ FmpIdle /\ MainIdle

IdleCall == [fn |-> "none", attempt |-> 0, response |-> [bound |-> FALSE, parts |-> <<>>],
             status |-> "idle", value |-> <<>>, exc |-> "", log |-> <<>>]

InitAgg ==
    /\ metrics_list \in SeqsUpTo(Bundles, MaxBundles)
    /\ agg_pc = "input"
    /\ agg_out = NoResult
    /\ call = IdleCall
    /\ history = <<>>
    /\ PipelineIdle
    /\ SideIdle

Aggregate ==
    /\ agg_pc = "input"
    /\ agg_out' = aggregate_metrics(metrics_list)
    /\ agg_pc' = "done"
    /\ UNCHANGED <<metrics_list, retry_vars, pipe_vars, side_vars>>

NextAgg == Aggregate

SpecAgg == InitAgg /\ [][NextAgg]_vars

----------------------------------------------------------------------------
(* What the claims say of aggregate_metrics, stated on the argument itself *)

\* the observation bundle k holds for issue i, if it holds one
HasObs(i, k) == i \in DOMAIN metrics_list[k] /\ Len(metrics_list[k][i]) = 2
ObsWeight(i, k) == metrics_list[k][i][1].val
ObsScore(i, k) == metrics_list[k][i][2].val
ObsAt(i) == {k \in 1..Len(metrics_list) : HasObs(i, k)}

AllWellFormed ==
    \A k \in 1..Len(metrics_list) : \A i \in DOMAIN metrics_list[k] :
        /\ Len(metrics_list[k][i]) = 2
        /\ metrics_list[k][i][1].isnum
        /\ metrics_list[k][i][2].isnum

RECURSIVE SumOfWeights(_, _)
SumOfWeights(i, n) ==
    IF n = 0 THEN 0
    ELSE SumOfWeights(i, n - 1) + (IF HasObs(i, n) THEN ObsWeight(i, n) ELSE 0)

RECURSIVE SumOfProducts(_, _)
SumOfProducts(i, n) ==
    IF n = 0 THEN 0
    ELSE SumOfProducts(i, n - 1)
            + (IF HasObs(i, n) THEN ObsWeight(i, n) * ObsScore(i, n) ELSE 0)

SumW(i) == SumOfWeights(i, Len(metrics_list))
SumWS(i) == SumOfProducts(i, Len(metrics_list))

\* r is num/den rounded to Decimals decimals: on the grid, nearest to it
IsRounded(r, num, den) ==
    r % Step = 0 /\ 2 * Abs(r * den - num) <= Step * den

ExampleBundles == << [ENV |-> <<Num(1), Num(F(80))>>], [ENV |-> <<Num(1), Num(F(60))>>] >>

\* C1: for bundles of well-formed pairs the call returns, for every issue
\* whose weights sum to more than 0, the sum of the weights as confidence and
\* sum(weight*score)/sum(weight) as score, both rounded to 3 decimals; the
\* bundles ENV (1,80) and ENV (1,60) give ENV confidence 2, score 70.
C1_WeightedMean ==
    (agg_pc = "done" /\ AllWellFormed) =>
        /\ agg_out.raised = "none"
        /\ \A i \in issues : SumW(i) > 0 =>
                /\ i \in DOMAIN agg_out.value
                /\ IsRounded(agg_out.value[i][1], F(SumW(i)), 1)
                /\ IsRounded(agg_out.value[i][2], SumWS(i), SumW(i))
        /\ (metrics_list = ExampleBundles =>
                agg_out.value = [ENV |-> <<F(2), F(70)>>])

\* two observations of different weight and score were averaged, and the
\* quotient needed rounding
C1_Witness ==
    /\ agg_pc = "done" /\ AllWellFormed
    /\ Cardinality(ObsAt("ENV")) = 2
    /\ SumW("ENV") > 0
    /\ SumWS("ENV") % (SumW("ENV") * Step) # 0
    /\ "ENV" \in DOMAIN agg_out.value

\* C2: the result holds an issue exactly when its weights sum to more than
\* 0; no bundles give the empty result; no input reaches a division by zero.
C2_PresentIffPositive ==
    agg_pc = "done" =>
        /\ agg_out.raised # "ZeroDivisionError"
        /\ (agg_out.raised = "none" =>
                \A i \in issues : (i \in DOMAIN agg_out.value) <=> (SumW(i) > 0))
        /\ (metrics_list = <<>> =>
                agg_out.raised = "none" /\ DOMAIN agg_out.value = {})

\* ENV was observed with weights that cancel to 0 and is left out, while PAY
\* is kept
C2_Witness ==
    /\ agg_pc = "done" /\ agg_out.raised = "none"
    /\ ObsAt("ENV") # {} /\ SumW("ENV") = 0
    /\ \E k \in ObsAt("ENV") : ObsWeight("ENV", k) # 0
    /\ DOMAIN agg_out.value = {"PAY"}

ScoreMin(i) == CHOOSE m \in {ObsScore(i, k) : k \in ObsAt(i)} :
                    \A k \in ObsAt(i) : m <= ObsScore(i, k)
ScoreMax(i) == CHOOSE m \in {ObsScore(i, k) : k \in ObsAt(i)} :
                    \A k \in ObsAt(i) : m >= ObsScore(i, k)

WithinObserved ==
    \A i \in DOMAIN agg_out.value :
        ScoreMin(i) <= agg_out.value[i][2] /\ agg_out.value[i][2] <= ScoreMax(i)

\* C3 as stated: for every input, the score of every issue of total weight
\* > 0 lies between the least and the greatest score observed for it.
C3_Original_AnyInput ==
    (agg_pc = "done" /\ agg_out.raised = "none") => WithinObserved

NonNegativeWeights ==
    \A i \in issues : \A k \in ObsAt(i) : ObsWeight(i, k) >= 0
ScoresOnGrid ==
    \A i \in issues : \A k \in ObsAt(i) : ObsScore(i, k) % Step = 0

\* C3 as amended: when no weight is negative and every score has at most 3
\* decimals, the score of every issue of total weight > 0 lies between the
\* least and the greatest score observed for it.
C3_BoundedMean ==
    (agg_pc = "done" /\ agg_out.raised = "none"
        /\ NonNegativeWeights /\ ScoresOnGrid) => WithinObserved

\* a mean strictly inside the range of two observed scores
C3_Witness ==
    /\ agg_pc = "done" /\ agg_out.raised = "none"
    /\ NonNegativeWeights /\ ScoresOnGrid
    /\ "ENV" \in DOMAIN agg_out.value
    /\ ScoreMin("ENV") < agg_out.value["ENV"][2]
    /\ agg_out.value["ENV"][2] < ScoreMax("ENV")

----------------------------------------------------------------------------
(* The retry loops around gemini_client.models.generate_content            *)

\* One part of response.candidates[0].content.parts: a function call named
\* "<issue>_INDEX" with args weight and (optionally) score, or plain text.
\* name holds the issue id, what name.replace('_INDEX', '') leaves.
PartCall(issue, has_score, w, s) ==
    [function_call |-> TRUE, name |-> issue, has_score |-> has_score,
     weight |-> w, score |-> s]
PartText ==
    [function_call |-> FALSE, name |-> "", has_score |-> FALSE, weight |-> 0, score |-> 0]

Responses ==
    { <<PartCall("ENV", TRUE, 50, F(80))>>,
      <<PartCall("ENV", FALSE, 0, 0)>>,
      <<PartText>> }

\* What one attempt's request comes back with: a response, an
\* errors.ClientError carrying a code, or any other exception.
Ok(parts) == [kind |-> "ok", code |-> 0, parts |-> parts]
ClientError(code) == [kind |-> "ClientError", code |-> code, parts |-> <<>>]
OtherException == [kind |-> "Exception", code |-> 0, parts |-> <<>>]

Outcomes ==
    {Ok(r) : r \in Responses} \cup {ClientError(RateLimited), ClientError(400), OtherException}

Request == [ev |-> "request", secs |-> 0]
Sleep(n) == [ev |-> "sleep", secs |-> n]

cooldown_from_one(attempt) == (attempt + 1) * CooldownStep + CooldownBase

cooldown(attempt) == attempt * CooldownStep + CooldownBase

is_final_off_by_one(attempt) == attempt = FinalAttempt + 1

is_final(attempt) == attempt = FinalAttempt

\* "if attempt < 5 - 1" of ask_compeditors
may_retry_always(attempt) == attempt < RetryRange

may_retry(attempt) == attempt < RetryRange - 1

return(c, v) == [c EXCEPT !.status = "returned", !.value = v]
raise(c, e) == [c EXCEPT !.status = "raised", !.exc = e]
requested(c) == [c EXCEPT !.log = Append(@, Request)]
slept(c, n) == [c EXCEPT !.log = Append(@, Sleep(n))]

\* the function calls among the parts, in order
RECURSIVE function_calls(_)
function_calls(parts) ==
    IF parts = <<>> THEN <<>>
    ELSE IF Head(parts).function_call
         THEN <<Head(parts)>> \o function_calls(Tail(parts))
         ELSE function_calls(Tail(parts))

\* analyze.py:181-198 and 406-422: output[name] = [weight, score], or [0, 0]
\* when the call has no score; a later part of the same name overwrites
RECURSIVE parts_output(_, _)
parts_output(output, fcs) ==
    IF fcs = <<>> THEN output
    ELSE LET p == Head(fcs)
             v == IF p.has_score THEN <<Num(p.weight), Num(p.score)>>
                  ELSE <<Num(0), Num(0)>>
         IN  parts_output([i \in DOMAIN output \cup {p.name} |->
                               IF i = p.name THEN v ELSE output[i]], Tail(fcs))

\* ask_about_article, analyze.py:151-198.  A successful attempt only assigns
\* response: nothing leaves the loop, and the next attempt follows.
article_loop_end(c) ==
    IF c.attempt + 1 < RetryRange THEN [c EXCEPT !.attempt = @ + 1]
    ELSE IF ~c.response.bound THEN raise(c, "UnboundLocalError")
    ELSE return(c, parts_output(<<>>, function_calls(c.response.parts)))

ask_about_article_attempt(c, o) ==
    LET c1 == requested(c)
    IN  CASE o.kind = "ok" ->
                article_loop_end([c1 EXCEPT !.response = [bound |-> TRUE, parts |-> o.parts]])
          [] o.kind = "ClientError" ->
                IF o.code # RateLimited THEN raise(c1, "ClientError")
                ELSE IF is_final(c.attempt) THEN return(c1, <<>>)
                ELSE article_loop_end(slept(c1, cooldown(c.attempt)))
          [] o.kind = "Exception" ->
                IF is_final(c.attempt) THEN return(c1, <<>>)
                ELSE article_loop_end(c1)

\* data_grounded_gemini, analyze.py:391-439.  The response is parsed inside
\* the try: a part without a function call makes part.function_call.name an
\* AttributeError, which the "except Exception" arm takes like any failure.
\* Falling out of the loop would return None.
gemini_loop_end(c) ==
    IF c.attempt + 1 < RetryRange THEN [c EXCEPT !.attempt = @ + 1]
    ELSE raise(c, "ReturnedNone")

gemini_on_exception(c) ==
    IF is_final(c.attempt) THEN return(c, <<>>) ELSE gemini_loop_end(c)

data_grounded_gemini_attempt(c, o) ==
    LET c1 == requested(c)
    IN  CASE o.kind = "ok" ->
                IF \E k \in 1..Len(o.parts) : ~o.parts[k].function_call
                THEN gemini_on_exception(c1)
                ELSE return(c1, parts_output(<<>>, function_calls(o.parts)))
          [] o.kind = "ClientError" ->
                IF o.code # RateLimited THEN raise(c1, "ClientError")
                ELSE IF is_final(c.attempt) THEN return(c1, <<>>)
                ELSE gemini_loop_end(slept(c1, cooldown(c.attempt)))
          [] o.kind = "Exception" -> gemini_on_exception(c1)

\* ask_compeditors, analyze.py:446-481
compeditors_loop_end(c) ==
    IF c.attempt + 1 < RetryRange THEN [c EXCEPT !.attempt = @ + 1]
    ELSE return(c, <<>>)

ask_compeditors_attempt(c, o) ==
    LET c1 == requested(c)
    IN  CASE o.kind = "ok" ->
                LET fcs == function_calls(o.parts)
                IN  IF fcs # <<>> THEN return(c1, <<"args", Head(fcs).name>>)
                    ELSE return(c1, <<>>)
          [] o.kind = "ClientError" ->
                IF o.code = RateLimited /\ may_retry(c.attempt)
                THEN compeditors_loop_end(
                        slept(c1, CooldownStep * c.attempt + CooldownBase))
                ELSE raise(c1, "ClientError")
          [] o.kind = "Exception" -> compeditors_loop_end(c1)

Fns == {"ask_about_article", "data_grounded_gemini", "ask_compeditors"}

attempt_of(c, o) ==
    CASE c.fn = "ask_about_article" -> ask_about_article_attempt(c, o)
      [] c.fn = "data_grounded_gemini" -> data_grounded_gemini_attempt(c, o)
      [] c.fn = "ask_compeditors" -> ask_compeditors_attempt(c, o)

NewCall(fn) == [IdleCall EXCEPT !.fn = fn, !.status = "running"]

InitRetry ==
    /\ call \in {NewCall(fn) : fn \in Fns}
    /\ history = <<>>
    /\ metrics_list = <<>>
    /\ agg_pc = "idle"
    /\ agg_out = NoResult
    /\ PipelineIdle
    /\ SideIdle

AskAboutArticleAttempt ==
    /\ call.fn = "ask_about_article" /\ call.status = "running"
    /\ \E o \in Outcomes :
        /\ call' = ask_about_article_attempt(call, o)
        /\ history' = Append(history, o)
    /\ UNCHANGED <<agg_vars, pipe_vars, side_vars>>

DataGroundedGeminiAttempt ==
    /\ call.fn = "data_grounded_gemini" /\ call.status = "running"
    /\ \E o \in Outcomes :
        /\ call' = data_grounded_gemini_attempt(call, o)
        /\ history' = Append(history, o)
    /\ UNCHANGED <<agg_vars, pipe_vars, side_vars>>

AskCompeditorsAttempt ==
    /\ call.fn = "ask_compeditors" /\ call.status = "running"
    /\ \E o \in Outcomes :
        /\ call' = ask_compeditors_attempt(call, o)
        /\ history' = Append(history, o)
    /\ UNCHANGED <<agg_vars, pipe_vars, side_vars>>

NextRetry ==
    \/ AskAboutArticleAttempt
    \/ DataGroundedGeminiAttempt
    \/ AskCompeditorsAttempt

SpecRetry == InitRetry /\ [][NextRetry]_vars

----------------------------------------------------------------------------
(* What the claims say of the retry loops *)

AllRateLimited ==
    \A k \in 1..Len(history) : history[k] = ClientError(429)
AllTransient ==
    \A k \in 1..Len(history) : history[k].kind = "Exception"

SleepsWhenRateLimited ==
    << Request, Sleep(60), Request, Sleep(360), Request, Sleep(660),
       Request, Sleep(960), Request >>
NoSleeps == << Request, Request, Request, Request, Request >>

\* C5: when every attempt is answered 429, ask_about_article and
\* data_grounded_gemini make exactly 5 requests, sleep 60, 360, 660, 960 s
\* between them in that order, do not sleep after the fifth, and return {}.
C5_RateLimitSchedule ==
    (call.fn \in {"ask_about_article", "data_grounded_gemini"} /\ AllRateLimited) =>
        /\ call.status # "raised"
        /\ Len(history) <= 5
        /\ (call.status = "running" =>
                /\ Len(history) < 5
                /\ call.log = SubSeq(SleepsWhenRateLimited, 1, 2 * Len(history)))
        /\ (call.status = "returned" =>
                /\ Len(history) = 5
                /\ call.log = SleepsWhenRateLimited
                /\ call.value = <<>>)

C5_Witness ==
    /\ call.fn = "data_grounded_gemini" /\ AllRateLimited
    /\ call.status = "returned" /\ Len(history) = 5

\* C6: in ask_compeditors a 429 on the fifth, final attempt is not
\* propagated: the call returns the empty list.
C6_Original_FinalRateLimit ==
    (/\ call.fn = "ask_compeditors"
     /\ Len(history) = 5
     /\ history[5] = ClientError(429)) =>
        call.status = "returned" /\ call.value = <<>>

\* C7: when every attempt fails with an exception that is no ClientError,
\* each of the three calls makes exactly 5 requests, never sleeps, and
\* returns its empty fallback without raising.
C7_TransientFallback ==
    (call.fn \in Fns /\ AllTransient) =>
        /\ call.status # "raised"
        /\ Len(history) <= 5
        /\ (call.status = "running" =>
                /\ Len(history) < 5
                /\ call.log = SubSeq(NoSleeps, 1, Len(history)))
        /\ (call.status = "returned" =>
                /\ Len(history) = 5
                /\ call.log = NoSleeps
                /\ call.value = <<>>)

C7_Witness ==
    /\ call.fn = "ask_compeditors" /\ AllTransient
    /\ call.status = "returned" /\ Len(history) = 5

----------------------------------------------------------------------------
(* analyze_companies, analyze.py:495-562, and the sources it calls         *)

MaxCompanies == 2       \* longest company list drawn

max_retries == 2        \* data_google: max_retries = 2
FmpEnvWeight == 100     \* "ENV": [100, ...]
FmpPayWeight == 50      \* "PAY": [50, ...]

\* A name is the sequence of its characters.
Apple == <<"A", "p", "p", "l", "e">>
AppleSpaced == <<"a", "p", "p", "l", "e", " ">>
Temu == <<"T", "e", "m", "u">>
\* the names a list is drawn from: two canonical names, one of them reached
\* through strip(), the other through lower()
CompanyNames == {AppleSpaced, Temu}

\* str.lower() on the characters in use
lower_char(ch) ==
    CASE ch = "A" -> "a"
      [] ch = "T" -> "t"
      [] OTHER -> ch

IsSpace(ch) == ch = " "
IsAlnum(ch) == ch \in {"a", "p", "l", "e", "t", "m", "u", "0", "1"}

RECURSIVE lstrip(_)
lstrip(str) ==
    IF str # <<>> /\ IsSpace(Head(str)) THEN lstrip(Tail(str)) ELSE str

RECURSIVE rstrip(_)
rstrip(str) ==
    IF str # <<>> /\ IsSpace(str[Len(str)])
    THEN rstrip(SubSeq(str, 1, Len(str) - 1)) ELSE str

\* re.sub(r'[^a-z0-9]', '', string)
RECURSIVE keep_alnum(_)
keep_alnum(str) ==
    IF str = <<>> THEN <<>>
    ELSE IF IsAlnum(Head(str)) THEN <<Head(str)>> \o keep_alnum(Tail(str))
    ELSE keep_alnum(Tail(str))

\* analyze.py:23-26
string_standard_formatting(str) ==
    keep_alnum(rstrip(lstrip([k \in 1..Len(str) |-> lower_char(str[k])])))

\* analyze.py:492-493, the default of the argument skip_company
empty_function_skip_company_false(name) == FALSE

empty_function_skip_company(name) == TRUE

\* the predicate analyze_companies was given, applied to a canonical name
skip_company(name) ==
    IF skip_default THEN empty_function_skip_company(name)
    ELSE name \in skip_names

\* skip_company(string_standard_formatting(company)), analyze.py:515
skips_nothing(company) == FALSE

skips(company) == skip_company(string_standard_formatting(company))

\* the catalogue in the order the dict lists it: PAY comes before ENV
issue_order == <<"PAY", "ENV">>

\* analyze.py:209-247, the fixed data of test mode
get_test_fmp_data ==
    [ENV |-> <<Num(80), Num(F(75))>>, PAY |-> <<Num(50), Num(F(65))>>]

get_test_google_data(company_name) ==
    IF company_name # <<>>
    THEN [data |-> [PAY |-> <<Num(90), Num(F(60))>>], sources |-> <<>>]
    ELSE <<>>

get_test_gemini_response(company_name) ==
    IF company_name # <<>>
    THEN [PAY |-> <<Num(50), Num(F(60))>>, ENV |-> <<Num(50), Num(F(85))>>]
    ELSE <<>>

get_test_competitors(company_name) ==
    IF company_name = Apple THEN <<"Samsung", "Microsoft", "Google">>
    ELSE <<"Competitor 1", "Competitor 2", "Competitor 3">>

\* A mapping aggregate_metrics returned, read again as its input: the
\* confidence is a whole number of units, the weight it stands for.
as_bundle(value) ==
    [i \in DOMAIN value |-> <<Num(value[i][1] \div Scale), Num(value[i][2])>>]

\* --- data_google, analyze.py:301-381 ---

\* One result item: its link (or none), and what requests.get(link) does:
\* answers ok, answers with an error status, or raises (a timeout, a
\* connection error); text is what extract_text_from_html makes of the body.
Item(link, fetch, text) == [link |-> link, fetch |-> fetch, text |-> text]
ItemLists ==
    { <<>>,
      <<Item(FALSE, "ok", FALSE)>>,
      <<Item(TRUE, "ok", TRUE)>>,
      <<Item(TRUE, "ok", FALSE)>>,
      <<Item(TRUE, "not_ok", TRUE)>>,
      <<Item(TRUE, "raises", FALSE)>> }

\* What one search request comes back with.
SearchFailures == {"ReadTimeout", "exception", "status_429", "status_other"}
Failed(how) == [kind |-> how, items |-> <<>>]
Found(items) == [kind |-> "ok", items |-> items]
BadJson == [kind |-> "bad_json", items |-> <<>>]
SearchOutcomes ==
    {Failed(h) : h \in SearchFailures} \cup {BadJson}
        \cup {Found(items) : items \in ItemLists}

\* analyze.py:345-357, the loop over result_items.  Only AssertionError is
\* caught around the fetch; the text of an error page is still extracted.
RECURSIVE fetch_items(_, _, _)
fetch_items(st, issue, k) ==
    IF k > Len(st.items) THEN st
    ELSE LET item == st.items[k]
             linked == [st EXCEPT !.links = Append(@, <<issue, k>>)]
         IN  IF ~item.link THEN fetch_items(st, issue, k + 1)
             ELSE IF item.fetch = "raises"
                  THEN [linked EXCEPT !.raised = "Timeout"]
             ELSE IF item.text
                  THEN fetch_items([linked EXCEPT !.articles = Append(@, <<issue, k>>)],
                                   issue, k + 1)
             ELSE fetch_items(linked, issue, k + 1)

\* analyze.py:314-360, one issue: up to max_retries search requests
RECURSIVE search_issue(_, _, _)
search_issue(issue, script, i) ==
    LET none == [raised |-> "", articles |-> <<>>, links |-> <<>>, items |-> <<>>]
    IN  IF i >= max_retries THEN none
        ELSE LET o == script[i + 1]
             IN  IF o.kind \in SearchFailures THEN search_issue(issue, script, i + 1)
                 ELSE IF o.kind = "bad_json" THEN [none EXCEPT !.raised = "JSONDecodeError"]
                 ELSE IF o.items = <<>> THEN none
                 ELSE fetch_items([none EXCEPT !.items = o.items], issue, 1)

\* what the max_retries requests of one issue come back with; a request
\* after the one that ended the loop is never made, so it is not varied
RECURSIVE ScriptsFrom(_)
ScriptsFrom(i) ==
    IF i > max_retries THEN {<<>>}
    ELSE {<<o>> \o rest : o \in {Failed(h) : h \in SearchFailures}, rest \in ScriptsFrom(i + 1)}
            \cup {<<o>> \o [k \in 1..(max_retries - i) |-> o] :
                        o \in SearchOutcomes \ {Failed(h) : h \in SearchFailures}}
SearchScripts == ScriptsFrom(1)

\* every way a retry-wrapped call can end, as [status, value, exc]
RECURSIVE run_all(_)
run_all(frames) ==
    IF \A c \in frames : c.status # "running" THEN frames
    ELSE run_all(UNION {IF c.status = "running"
                        THEN {attempt_of(c, o) : o \in Outcomes}
                        ELSE {c} : c \in frames})

Ends(fn) ==
    {[status |-> c.status, value |-> c.value, exc |-> c.exc] : c \in run_all({NewCall(fn)})}

AskAboutArticleEnds == Ends("ask_about_article")
DataGroundedGeminiEnds == Ends("data_grounded_gemini")
AskCompeditorsEnds == Ends("ask_compeditors")

\* What the FMP request comes back with, analyze.py:289-299: the request or
\* the parsing raises, or json_data[0] is a record that may hold
\* environmentalScore and socialScore.
FmpFailure == [ok |-> FALSE, has_env |-> FALSE, env |-> 0, has_social |-> FALSE, social |-> 0]
FmpRecord(has_env, env, has_social, social) ==
    [ok |-> TRUE, has_env |-> has_env, env |-> env, has_social |-> has_social, social |-> social]
FmpPayloads == {FmpFailure, FmpRecord(TRUE, F(60), TRUE, F(80))}

\* data.get("environmentalScore", 0), data.get("socialScore", 0)
data_fmp(payload) ==
    IF ~payload.ok THEN <<>>
    ELSE [ENV |-> <<Num(FmpEnvWeight), Num(IF payload.has_env THEN payload.env ELSE 0)>>,
          PAY |-> <<Num(FmpPayWeight), Num(IF payload.has_social THEN payload.social ELSE 0)>>]

Event(i, ev) == [i |-> i, ev |-> ev]

\* tr with the note that something outside the program (an HTTP request, a
\* call of the model) was consulted for company i; noted once per company
consulted(tr, i) ==
    IF \E k \in 1..Len(tr) : tr[k] = Event(i, "external") THEN tr
    ELSE Append(tr, Event(i, "external"))

Init ==
    /\ companies \in SeqsUpTo(CompanyNames, MaxCompanies)
    /\ skip_default \in BOOLEAN
    /\ skip_names \in IF skip_default THEN {{}}
                      ELSE SUBSET {string_standard_formatting(n) : n \in CompanyNames}
    /\ test_mode \in BOOLEAN
    /\ idx = 1
    /\ pc = "for_company"
    /\ g = NoLocals
    /\ google_data = <<>> /\ sources = <<>> /\ fmp_data = <<>>
    /\ metrics = <<>>
    /\ all_company_data = <<>>
    /\ trace = <<>>
    /\ exc = ""
    /\ metrics_list = <<>> /\ agg_pc = "idle" /\ agg_out = NoResult
    /\ call = IdleCall /\ history = <<>>
    /\ SideIdle

company == companies[idx]

Raise(e) ==
    /\ pc' = "raised"
    /\ exc' = e

\* the locals are dead once the iteration is over
NextIteration ==
    /\ idx' = idx + 1
    /\ pc' = "for_company"
    /\ g' = NoLocals
    /\ google_data' = <<>> /\ sources' = <<>> /\ fmp_data' = <<>>
    /\ metrics' = <<>>

\* analyze.py:513-517
SkipCompany ==
    /\ pc = "for_company" /\ idx <= Len(companies)
    /\ skips(company)
    /\ NextIteration
    /\ UNCHANGED <<companies, skip_names, skip_default, test_mode, all_company_data, trace, exc>>

\* analyze.py:513-525, up to the call of data_google
CallDataGoogle ==
    /\ pc = "for_company" /\ idx <= Len(companies)
    /\ ~skips(company)
    /\ trace' = Append(trace, Event(idx, "data_google"))
    /\ pc' = "data_google"
    /\ g' = [NoLocals EXCEPT !.todo = issue_order]
    /\ UNCHANGED <<companies, skip_names, skip_default, test_mode, idx, google_data, sources,
                   fmp_data, metrics, all_company_data, exc>>

\* analyze.py:303-304 and 526-527
DataGoogleTestMode ==
    /\ pc = "data_google" /\ test_mode
    /\ LET unformatted_google_data == get_test_google_data(company)
       IN  IF unformatted_google_data = <<>>
           THEN Raise("KeyError") /\ UNCHANGED <<google_data, sources>>
           ELSE /\ google_data' = unformatted_google_data.data
                /\ sources' = unformatted_google_data.sources
                /\ pc' = "data_fmp"
                /\ UNCHANGED exc
    /\ UNCHANGED <<companies, skip_names, skip_default, test_mode, idx, g, fmp_data,
                   metrics, all_company_data, trace>>

\* analyze.py:310-365, one turn of the loop over the issues
DataGoogleSearch ==
    /\ pc = "data_google" /\ ~test_mode /\ g.todo # <<>>
    /\ \E script \in SearchScripts :
        LET issue_id == Head(g.todo)
            found == search_issue(issue_id, script, 0)
        IN  IF found.raised # ""
            THEN Raise(found.raised) /\ UNCHANGED g
            ELSE /\ g' = [g EXCEPT !.todo = Tail(@),
                                    !.link_list = found.links,
                                    !.responses = Append(@, found.articles)]
                 /\ UNCHANGED <<pc, exc>>
    /\ trace' = consulted(trace, idx)
    /\ UNCHANGED <<companies, skip_names, skip_default, test_mode, idx, google_data, sources,
                   fmp_data, metrics, all_company_data>>

\* analyze.py:368-374, the next issue that has articles
DataGoogleAsk ==
    /\ pc = "data_google" /\ ~test_mode /\ g.todo = <<>>
    /\ g.responses # <<>>
    /\ IF Head(g.responses) = <<>>
       THEN g' = [g EXCEPT !.responses = Tail(@)] /\ UNCHANGED <<pc, exc, trace>>
       ELSE /\ trace' = consulted(trace, idx)
            /\ \E end \in AskAboutArticleEnds :
                IF end.status = "raised"
                THEN Raise(end.exc) /\ UNCHANGED g
                ELSE /\ g' = [g EXCEPT !.responses = Tail(@),
                                        !.datasets = Append(@, end.value)]
                     /\ UNCHANGED <<pc, exc>>
    /\ UNCHANGED <<companies, skip_names, skip_default, test_mode, idx, google_data, sources,
                   fmp_data, metrics, all_company_data>>

\* analyze.py:376-381 and 526-527
DataGoogleReturn ==
    /\ pc = "data_google" /\ ~test_mode /\ g.todo = <<>>
    /\ g.responses = <<>>
    /\ LET final_metrics == aggregate_metrics(g.datasets)
       IN  IF final_metrics.raised # "none"
           THEN Raise(final_metrics.raised) /\ UNCHANGED <<google_data, sources>>
           ELSE /\ google_data' = as_bundle(final_metrics.value)
                /\ sources' = g.link_list
                /\ pc' = "data_fmp"
                /\ UNCHANGED exc
    /\ g' = NoLocals
    /\ UNCHANGED <<companies, skip_names, skip_default, test_mode, idx, fmp_data,
                   metrics, all_company_data, trace>>

\* analyze.py:531-538 with data_fmp, 284-299
DataFmp ==
    /\ pc = "data_fmp"
    /\ IF test_mode
       THEN /\ fmp_data' = get_test_fmp_data
            /\ trace' = Append(trace, Event(idx, "data_fmp"))
       ELSE /\ \E payload \in FmpPayloads : fmp_data' = data_fmp(payload)
            /\ trace' = consulted(Append(trace, Event(idx, "data_fmp")), idx)
    /\ pc' = "data_grounded_gemini"
    /\ UNCHANGED <<companies, skip_names, skip_default, test_mode, idx, g, google_data, sources,
                   metrics, all_company_data, exc>>

\* outside test mode data_grounded_gemini and ask_compeditors call the model
with_model_always(tr) == consulted(tr, idx)

with_model(tr) == IF test_mode THEN tr ELSE consulted(tr, idx)

\* analyze.py:541-545: data_grounded_gemini, then aggregate_metrics
DataGroundedGemini ==
    /\ pc = "data_grounded_gemini"
    /\ \E end \in IF test_mode
                  THEN {[status |-> "returned", value |-> get_test_gemini_response(company),
                         exc |-> ""]}
                  ELSE DataGroundedGeminiEnds :
        IF end.status = "raised"
        THEN /\ Raise(end.exc)
             /\ trace' = with_model(Append(trace, Event(idx, "data_grounded_gemini")))
             /\ UNCHANGED <<google_data, fmp_data, metrics>>
        ELSE LET gemini_response == end.value
                 aggregated == aggregate_metrics(<<google_data, fmp_data, gemini_response>>)
             IN  IF aggregated.raised # "none"
                 THEN /\ Raise(aggregated.raised)
                      /\ trace' = with_model(Append(trace, Event(idx, "data_grounded_gemini")))
                      /\ UNCHANGED <<google_data, fmp_data, metrics>>
                 ELSE /\ metrics' = aggregated.value
                      /\ trace' = with_model(Append(trace, Event(idx, "data_grounded_gemini")))
                                    \o << Event(idx, IF aggregated.value = <<>>
                                                     THEN "metrics_empty" ELSE "metrics_found") >>
                      /\ google_data' = <<>> /\ fmp_data' = <<>>
                      /\ pc' = "ask_compeditors"
                      /\ UNCHANGED exc
    /\ UNCHANGED <<companies, skip_names, skip_default, test_mode, idx, g, sources, all_company_data>>

\* analyze.py:548-560: ask_compeditors, then the record is stored and handed
\* to add_data when metrics is not empty
AskCompeditorsAndStore ==
    /\ pc = "ask_compeditors"
    /\ \E end \in IF test_mode
                  THEN {[status |-> "returned", value |-> get_test_competitors(company),
                         exc |-> ""]}
                  ELSE AskCompeditorsEnds :
        IF end.status = "raised"
        THEN /\ Raise(end.exc)
             /\ trace' = with_model(Append(trace, Event(idx, "ask_compeditors")))
             /\ UNCHANGED <<idx, locals, all_company_data>>
        ELSE IF metrics # <<>>
        THEN    LET key == string_standard_formatting(company)
                    output_data == [metrics |-> metrics, full_name |-> company,
                                    competitors |-> end.value, sources |-> sources,
                                    date |-> "int(time.time())"]
                IN  /\ all_company_data' =
                            [k \in DOMAIN all_company_data \cup {key} |->
                                IF k = key THEN output_data ELSE all_company_data[k]]
                    /\ trace' = Append(with_model(Append(trace, Event(idx, "ask_compeditors"))),
                                     Event(idx, "add_data"))
                    /\ NextIteration
                    /\ UNCHANGED exc
        ELSE /\ trace' = with_model(Append(trace, Event(idx, "ask_compeditors")))
             /\ NextIteration
             /\ UNCHANGED <<all_company_data, exc>>
    /\ UNCHANGED <<companies, skip_names, skip_default, test_mode>>

\* analyze.py:562
Return ==
    /\ pc = "for_company" /\ idx > Len(companies)
    /\ pc' = "returned"
    /\ UNCHANGED <<companies, skip_names, skip_default, test_mode, idx, locals,
                   all_company_data, trace, exc>>

Next ==
    \/ (SkipCompany /\ UNCHANGED <<agg_vars, retry_vars, side_vars>>)
    \/ (CallDataGoogle /\ UNCHANGED <<agg_vars, retry_vars, side_vars>>)
    \/ (DataGoogleTestMode /\ UNCHANGED <<agg_vars, retry_vars, side_vars>>)
    \/ (DataGoogleSearch /\ UNCHANGED <<agg_vars, retry_vars, side_vars>>)
    \/ (DataGoogleAsk /\ UNCHANGED <<agg_vars, retry_vars, side_vars>>)
    \/ (DataGoogleReturn /\ UNCHANGED <<agg_vars, retry_vars, side_vars>>)
    \/ (DataFmp /\ UNCHANGED <<agg_vars, retry_vars, side_vars>>)
    \/ (DataGroundedGemini /\ UNCHANGED <<agg_vars, retry_vars, side_vars>>)
    \/ (AskCompeditorsAndStore /\ UNCHANGED <<agg_vars, retry_vars, side_vars>>)
    \/ (Return /\ UNCHANGED <<agg_vars, retry_vars, side_vars>>)

Spec == Init /\ [][Next]_vars

----------------------------------------------------------------------------
(* What the claims say of analyze_companies *)

Key(i) == string_standard_formatting(companies[i])
Happened(i, ev) == \E k \in 1..Len(trace) : trace[k] = Event(i, ev)
Touched(i) == \E k \in 1..Len(trace) : trace[k].i = i
\* the iteration for companies[i] is over, by "continue", by reaching the
\* end of the loop body, or because the whole call ended
Over(i) == i < idx \/ pc \in {"returned", "raised"}

\* C4 as stated: analyze_companies never ends with an exception because one
\* source's external call failed (a search or article fetch that times
\* out, a client error from the model).
C4_Original_NeverRaises ==
    ~(pc = "raised" /\ exc \in {"Timeout", "ClientError"})

\* C8: for a company whose canonical name skip_company answers True for, no
\* source and no competitor lookup is called, add_data is not called, and
\* the name is not a key of the mapping.
C8_SkippedUntouched ==
    \A i \in 1..Len(companies) :
        skip_company(Key(i)) =>
            /\ ~Touched(i)
            /\ Key(i) \notin DOMAIN all_company_data

\* the call returned having skipped one company and recorded another
C8_Witness ==
    /\ pc = "returned"
    /\ \E i \in 1..Len(companies) : skip_company(Key(i))
    /\ \E j \in 1..Len(companies) : Happened(j, "add_data")

\* C9 as stated: a company that is not skipped gets its record and its
\* add_data call exactly when its aggregated metrics are not empty.
C9_Original_RecordedIffMetrics ==
    \A i \in 1..Len(companies) :
        (Over(i) /\ ~skip_company(Key(i))) =>
            /\ Happened(i, "add_data") <=> Happened(i, "metrics_found")
            /\ Happened(i, "add_data") => Key(i) \in DOMAIN all_company_data

\* C10 as stated: every entry of the mapping is written once, and add_data
\* is called exactly once for it, also when two names of the list share a
\* canonical name.
C10_Original_WrittenOnce ==
    \A key \in DOMAIN all_company_data :
        Cardinality({i \in 1..Len(companies) :
                        Key(i) = key /\ Happened(i, "add_data")}) = 1

----------------------------------------------------------------------------
(* aggregate_metrics and the entries that are not [weight, score] *)

\* an entry the loop can use: a list of two numeric elements
well_formed(data) == is_pair(data) /\ data[1].isnum /\ data[2].isnum

\* the bundle list with every other entry taken out
WithoutMalformed(ml) ==
    [k \in 1..Len(ml) |->
        [i \in {j \in DOMAIN ml[k] : well_formed(ml[k][j])} |-> ml[k][i]]]

SomeMalformed(ml) ==
    \E k \in 1..Len(ml) : \E i \in DOMAIN ml[k] : ~well_formed(ml[k][i])

\* C11 as stated: aggregate_metrics never raises on a malformed entry; an
\* entry of the wrong length or with a non-numeric element is dropped, and
\* the result is the one the list without that entry gives.
C11_Original_MalformedDiscarded ==
    agg_pc = "done" =>
        /\ agg_out.raised = "none"
        /\ agg_out = aggregate_metrics(WithoutMalformed(metrics_list))

----------------------------------------------------------------------------
(* data_google's search requests and wait_until_4am, with the clock *)

TicksPerHour == 2       \* grain of the clock
MaxElapse == 1          \* most ticks that pass between a request and its answer

HoursPerDay == 24       \* datetime.timedelta(days=1)
FourAm == 4             \* now.replace(hour=4, minute=0, second=0, microsecond=0)

Day == HoursPerDay * TicksPerHour

\* now.hour
hour_of(t) == (t % Day) \div TicksPerHour

\* now.replace(hour=4, minute=0, second=0, microsecond=0)
today_at_4(t) == t - (t % Day) + FourAm * TicksPerHour

\* analyze.py:28-48: how long the call sleeps when entered at time t
wait_until_4am_same_day(t) ==
    LET remaining_time == today_at_4(t) - t
    IN  IF remaining_time > 0 THEN remaining_time ELSE 0

wait_until_4am(t) ==
    LET target_time == today_at_4(t)
    IN  IF t >= target_time
        THEN LET tomorrow == IF hour_of(t) >= FourAm THEN target_time + Day ELSE target_time
                 remaining_time == tomorrow - t
             IN  IF remaining_time > 0 THEN remaining_time ELSE 0
        ELSE LET remaining_time == target_time - t
             IN  IF remaining_time > 0 THEN remaining_time ELSE 0

Logged(ev, at, dur) == [ev |-> ev, at |-> at, dur |-> dur]

\* what a search request comes back with, as far as the loop's control goes
ClockOutcomes ==
    {Failed(h) : h \in SearchFailures}
        \cup {BadJson, Found(<<>>), Found(<<Item(TRUE, "ok", TRUE)>>)}

InitSearch ==
    /\ now \in 0..(Day - 1)
    /\ search = [todo |-> issue_order, i |-> 0, status |-> "running", log |-> <<>>]
    /\ metrics_list = <<>> /\ agg_pc = "idle" /\ agg_out = NoResult
    /\ call = IdleCall /\ history = <<>>
    /\ PipelineIdle /\ FmpIdle /\ MainIdle

\* analyze.py:317-360, one turn of "for i in range(max_retries)": the request,
\* and on status 429 the whole of wait_until_4am before "continue"
SearchRequest ==
    /\ search.status = "running" /\ search.todo # <<>>
    /\ \E o \in ClockOutcomes, d \in 0..MaxElapse :
        LET asked == Append(search.log, Logged("request", now, 0))
            back == now + d
            next_issue(log) == [search EXCEPT !.todo = Tail(@), !.i = 0, !.log = log]
            continue(log) == IF search.i + 1 < max_retries
                             THEN [search EXCEPT !.i = @ + 1, !.log = log]
                             ELSE next_issue(log)
        IN  CASE o.kind = "status_429" ->
                    LET remaining_time == wait_until_4am(back)
                        limited == Append(asked, Logged("status_429", back, 0))
                    IN  /\ now' = back + remaining_time
                        /\ search' = continue(IF remaining_time > 0
                                              THEN Append(limited, Logged("sleep", back, remaining_time))
                                              ELSE limited)
              [] o.kind \in SearchFailures \ {"status_429"} ->
                    /\ now' = back
                    /\ search' = continue(asked)
              [] o.kind = "bad_json" ->
                    /\ now' = back
                    /\ search' = [search EXCEPT !.status = "raised", !.log = asked]
              [] OTHER ->
                    /\ now' = back
                    /\ search' = next_issue(asked)
    /\ UNCHANGED <<agg_vars, retry_vars, pipe_vars, fmp_call, main_vars>>

\* analyze.py:366, every issue has had its requests
SearchLoopEnd ==
    /\ search.status = "running" /\ search.todo = <<>>
    /\ search' = [search EXCEPT !.status = "returned"]
    /\ UNCHANGED <<now, agg_vars, retry_vars, pipe_vars, fmp_call, main_vars>>

NextSearch == SearchRequest \/ SearchLoopEnd

SpecSearch == InitSearch /\ [][NextSearch]_vars

\* the first 04:00 after t
Next4am(t) == CHOOSE T \in (t + 1)..(t + Day) : T % Day = FourAm * TicksPerHour

\* C12: after a search request is answered with status 429, wait_until_4am
\* sleeps for more than nothing and at most a day, up to exactly the next
\* 04:00, and every later search request is made at or after that time.
C12_WaitsUntilFourAm ==
    \A k \in 1..Len(search.log) :
        search.log[k].ev = "status_429" =>
            /\ k < Len(search.log)
            /\ search.log[k + 1].ev = "sleep"
            /\ search.log[k + 1].dur > 0
            /\ search.log[k + 1].dur <= Day
            /\ search.log[k + 1].at + search.log[k + 1].dur = Next4am(search.log[k].at)
            /\ \A m \in (k + 1)..Len(search.log) :
                    search.log[m].ev = "request" => search.log[m].at >= Next4am(search.log[k].at)

\* a request answered with 429 at 04:00 sharp and one at another hour, each
\* followed by a later request
C12_Witness ==
    /\ search.status = "returned"
    /\ \E k, m \in 1..Len(search.log) :
            /\ k < m
            /\ search.log[k].ev = "status_429" /\ search.log[k].at % Day = FourAm * TicksPerHour
            /\ search.log[m].ev = "request"
    /\ \E k, m \in 1..Len(search.log) :
            /\ k < m
            /\ search.log[k].ev = "status_429" /\ hour_of(search.log[k].at) < FourAm
            /\ search.log[m].ev = "request"

----------------------------------------------------------------------------
(* data_fmp, analyze.py:284-299, called on its own *)

MaxFmpLevel == 4        \* the scores a payload may carry: 0, 20, .. 20 * MaxFmpLevel

FmpScores == {F(20 * k) : k \in 0..MaxFmpLevel}

\* what the request can give: a failure (the request raises, the body is not
\* JSON, the list is empty), or a first record with or without each field
AllFmpPayloads ==
    {FmpFailure}
        \cup {FmpRecord(TRUE, e, TRUE, sc) : e \in FmpScores, sc \in FmpScores}
        \cup {FmpRecord(FALSE, 0, TRUE, sc) : sc \in FmpScores}
        \cup {FmpRecord(TRUE, e, FALSE, 0) : e \in FmpScores}
        \cup {FmpRecord(FALSE, 0, FALSE, 0)}

InitFmp ==
    /\ fmp_call \in [test_mode : BOOLEAN, payload : AllFmpPayloads,
                     status : {"called"}, value : {<<>>}]
    /\ metrics_list = <<>> /\ agg_pc = "idle" /\ agg_out = NoResult
    /\ call = IdleCall /\ history = <<>>
    /\ PipelineIdle /\ SearchIdle /\ MainIdle

\* the whole call; everything after the test of test_mode is inside
\* "try ... except Exception: return {}"
FmpCall ==
    /\ fmp_call.status = "called"
    /\ fmp_call' = [fmp_call EXCEPT
                        !.status = "returned",
                        !.value = IF fmp_call.test_mode THEN get_test_fmp_data
                                  ELSE data_fmp(fmp_call.payload)]
    /\ UNCHANGED <<agg_vars, retry_vars, pipe_vars, search_vars, main_vars>>

NextFmp == FmpCall

SpecFmp == InitFmp /\ [][NextFmp]_vars

\* C13 as stated: outside test mode data_fmp returns, and returns the empty
\* mapping unless the request succeeded and the record held both the
\* environmental and the social score.
C13_Original_EmptyUnlessBothRead ==
    (fmp_call.status # "called" /\ ~fmp_call.test_mode) =>
        /\ fmp_call.status = "returned"
        /\ fmp_call.value # <<>> <=>
                (fmp_call.payload.ok /\ fmp_call.payload.has_env /\ fmp_call.payload.has_social)

----------------------------------------------------------------------------
(* The main block, analyze.py:564-592 *)

MainKeys == {"google", "tesla", "temu"}

\* mappings from canonical names to records; a record is told apart only by
\* the run that wrote it
MappingsOf(record) == UNION {[K -> {record}] : K \in SUBSET MainKeys}

InitMain ==
    /\ TEST_MODE \in BOOLEAN
    /\ main_pc = "save"
    /\ final_data \in MappingsOf("this run")
    /\ \E f \in {NoFile, BadFile} \cup {FileOf(m) : m \in MappingsOf("earlier run")} :
            output_json = [was |-> f, is |-> f]
    /\ metrics_list = <<>> /\ agg_pc = "idle" /\ agg_out = NoResult
    /\ call = IdleCall /\ history = <<>>
    /\ PipelineIdle /\ SearchIdle /\ FmpIdle

\* analyze.py:584-585
merge(previous_data, new_data) ==
    [k \in DOMAIN previous_data \cup DOMAIN new_data |->
        IF k \in DOMAIN new_data THEN new_data[k] ELSE previous_data[k]]

\* analyze.py:580-592.  The loop that copies final_data is inside the try
\* that reads the file, and the bare except leaves previous_data = {}.
Save ==
    /\ main_pc = "save"
    /\ IF ~TEST_MODE
       THEN LET previous_data == IF output_json.is.state = "mapping"
                                 THEN merge(output_json.is.content, final_data)
                                 ELSE <<>>
            IN  output_json' = [output_json EXCEPT !.is = FileOf(previous_data)]
       ELSE UNCHANGED output_json
    /\ main_pc' = "done"
    /\ UNCHANGED <<TEST_MODE, final_data, agg_vars, retry_vars, pipe_vars, search_vars, fmp_call>>

NextMain == Save

SpecMain == InitMain /\ [][NextMain]_vars

----------------------------------------------------------------------------
(* aggregate_metrics on weights that doubles do not add exactly *)

MaxFloatBundles == 3    \* longest metrics_list drawn here

FloatWeights == {Huge, -Huge, 1, 2}
FloatBundles == {[ENV |-> <<Num(w), Num(0)>>] : w \in FloatWeights}

InitOrder ==
    /\ metrics_list \in SeqsUpTo(FloatBundles, MaxFloatBundles)
    /\ agg_pc = "input"
    /\ agg_out = NoResult
    /\ call = IdleCall
    /\ history = <<>>
    /\ PipelineIdle
    /\ SideIdle

NextOrder == Aggregate

SpecOrder == InitOrder /\ [][NextOrder]_vars

Permuted(ml, p) == [k \in 1..Len(ml) |-> ml[p[k]]]

\* C15 as stated: whatever the order of the bundles in the list,
\* aggregate_metrics gives the same result: the same issues, each with the
\* same confidence and score.
C15_Original_OrderIndependent ==
    agg_pc = "done" =>
        \A p \in Permutations(1..Len(metrics_list)) :
            aggregate_metrics(Permuted(metrics_list, p)) = agg_out

----------------------------------------------------------------------------
(* analyze_companies in test mode *)

\* the record test mode makes for a name, from the name alone
test_record(name) ==
    [metrics |-> aggregate_metrics(<<get_test_google_data(name).data,
                                      get_test_fmp_data,
                                      get_test_gemini_response(name)>>).value,
     full_name |-> name,
     competitors |-> get_test_competitors(name),
     sources |-> <<>>,
     date |-> "int(time.time())"]

NotSkipped == {i \in 1..Len(companies) : ~skip_company(Key(i))}

\* the last name of the list that has the canonical name key
LastOf(key) == CHOOSE i \in NotSkipped :
                    Key(i) = key /\ \A j \in NotSkipped : Key(j) = key => j <= i

\* the mapping a test-mode run returns, written as a function of the list
\* and the skip predicate
test_output ==
    [key \in {Key(i) : i \in NotSkipped} |-> test_record(companies[LastOf(key)])]

\* C16: in test mode analyze_companies returns, its mapping is fixed by the
\* company list and the skip predicate alone (the timestamp aside), and no
\* HTTP request and no call of the model is made during the run.
C16_TestModeDeterministic ==
    test_mode =>
        /\ pc # "raised"
        /\ \A k \in 1..Len(trace) : trace[k].ev # "external"
        /\ pc = "returned" => all_company_data = test_output

\* a test-mode run that returned with two companies recorded
C16_Witness ==
    /\ test_mode /\ pc = "returned"
    /\ Cardinality(DOMAIN all_company_data) = 2

----------------------------------------------------------------------------
(* The retry loops after an attempt that succeeded *)

\* the attempt gave the call a response it can read its answer from
succeeded(fn, o) ==
    /\ o.kind = "ok"
    /\ fn = "data_grounded_gemini" => \A k \in 1..Len(o.parts) : o.parts[k].function_call

\* C17 as stated: in ask_about_article and data_grounded_gemini, once an
\* attempt has succeeded no further request is made: if the k-th attempt is
\* the first to succeed the call has made exactly k requests and returns
\* the value read from that attempt's response.
C17_Original_StopsAtFirstSuccess ==
    call.fn \in {"ask_about_article", "data_grounded_gemini"} =>
        \A k \in 1..Len(history) :
            (/\ succeeded(call.fn, history[k])
             /\ \A j \in 1..(k - 1) : ~succeeded(call.fn, history[j])) =>
                /\ Len(history) = k
                /\ call.log[Len(call.log)] = Request
                /\ call.status = "returned"
                /\ call.value = parts_output(<<>>, function_calls(history[k].parts))

----------------------------------------------------------------------------
(* The links data_google returns *)

\* C18 as stated: when the searches of data_google are over, link_list, the
\* list it returns as "sources" and analyze_companies stores in the record,
\* holds the link of every article, of whatever issue, whose text is passed
\* to ask_about_article.
C18_Original_SourcesHoldEveryLink ==
    (pc = "data_google" /\ ~test_mode /\ g.todo = <<>>) =>
        \A n \in 1..Len(g.responses) : \A a \in 1..Len(g.responses[n]) :
            \E l \in 1..Len(g.link_list) : g.link_list[l] = g.responses[n][a]

----------------------------------------------------------------------------
(* analyze_companies called without skip_company *)

\* C19: with skip_company left to its default, which answers True for every
\* name, no source and no competitor lookup is called for any company,
\* add_data is never called, and the mapping returned is empty.
C19_DefaultSkipsEverything ==
    skip_default =>
        /\ trace = <<>>
        /\ all_company_data = <<>>
        /\ pc # "raised"

\* such a call has gone through a list of two names and returned
C19_Witness ==
    /\ skip_default
    /\ Len(companies) = 2
    /\ pc = "returned"

====
